---- MODULE Spec2Model ----
(***************************************************************************)
(* A state-machine model of the paper triage assistant (paper_triage):     *)
(* discovery of PDF files, the decision mode, the triage loop, the          *)
(* archival and logging loop, the digest and the email notification.       *)
(*                                                                         *)
(* Strings the code inspects character by character (the decision mode)    *)
(* are sequences of one-character strings.  A path is a record             *)
(*   [dir |-> sequence of directory components, name |-> file name]        *)
(* and a file name is [base, sfx, ext]: "x-1-2.pdf" is                     *)
(*   [base |-> "x", sfx |-> <<1, 2>>, ext |-> "pdf"].                      *)
(*                                                                         *)
(* The metadata lookup is built at the start of every run from the         *)
(* configured sources and the metadata files on disk.  A run may be        *)
(* interrupted between any two of its steps, and inside the summary, the   *)
(* log-append, the writing of the digest and the sending of the mail       *)
(* (send_message has returned, or raised and been caught).  The summary of *)
(* a paper may raise (the model package is absent, max_pages is not        *)
(* positive), which ends the run.                                          *)
(*                                                                         *)
(* Not modelled: the title of a candidate, the text of a summary, the      *)
(* timestamp, title and summary columns of a log row, symbolic links, and  *)
(* failures of the operating system other than a missing source file of a  *)
(* move.  The archive directory, the log file and the digest directory are *)
(* distinct locations, none of them inside an input folder.                *)
(***************************************************************************)
EXTENDS Integers, Sequences, FiniteSets, TLC

\* ------------------------------------------------------------------ bounds
\* Runs of triage_once in one behaviour.
MaxRuns == 2
\* Seconds the UTC clock may advance in one behaviour.
MaxClock == 1

\* ----------------------------------------------------------------- strings
\* Python's None, where the code allows None or a string.
None == <<"<None>">>

Str_keep == <<"k", "e", "e", "p">>
Str_remove == <<"r", "e", "m", "o", "v", "e">>
Str_skip == <<"s", "k", "i", "p">>
Str_R == <<"R">>
Str_retain == <<"r", "e", "t", "a", "i", "n">>
Str_delete == <<"d", "e", "l", "e", "t", "e">>
Str_empty == <<>>

\* str.lower() on one character, for the characters the model uses.
LowerChar(c) ==
    CASE c = "K" -> "k"
      [] c = "B" -> "b"
      [] c = "X" -> "x"
      [] c = "R" -> "r"
      [] c = "S" -> "s"
      [] c = "O" -> "o"
      [] OTHER -> c

Lower(s) == [i \in DOMAIN s |-> LowerChar(s[i])]

\* Python truthiness of an optional string: None and "" are falsy.
Truthy(s) == s # None /\ s # <<>>

\* dict.get(key, default)
Get(dict, key, dflt) == IF key \in DOMAIN dict THEN dict[key] ELSE dflt

\* ------------------------------------------------------------------- paths
Name(base, sfx, ext) == [base |-> base, sfx |-> sfx, ext |-> ext]
PathOf(dir, name) == [dir |-> dir, name |-> name]

\* PurePath normalisation: "." components are dropped, ".." is kept.
PurePath(raw) == SelectSeq(raw, LAMBDA c : c # ".")

\* What the operating system makes of a directory path: ".." steps up.
RECURSIVE ResolveDir(_)
ResolveDir(parts) ==
    IF parts = <<>> THEN <<>>
    ELSE LET init == ResolveDir(SubSeq(parts, 1, Len(parts) - 1))
             last == parts[Len(parts)]
         IN  IF last = ".." THEN
                 IF init = <<>> THEN <<>> ELSE SubSeq(init, 1, Len(init) - 1)
             ELSE Append(init, last)

\* Path.resolve(): the file a path denotes.
Resolve(p) == PathOf(ResolveDir(p.dir), p.name)

IsPrefix(s, t) == Len(s) <= Len(t) /\ SubSeq(t, 1, Len(s)) = s

\* Order of path components under Python's string comparison.
CompRank(c) ==
    CASE c = ".." -> 0
      [] c = "a" -> 1
      [] c = "arch" -> 2
      [] c = "b" -> 3
      [] c = "sub" -> 4
      [] c = "x" -> 5
      [] c = "zz" -> 6

\* Sort key of a path: its components in order; in a file name "-" sorts
\* before ".", so "x-1.pdf" < "x.pdf" and "x-1-1.pdf" < "x-1.pdf".
PathKey(p) ==
    [i \in 1..Len(p.dir) |-> CompRank(p.dir[i])]
        \o <<CompRank(p.name.base)>> \o p.name.sfx \o <<99>>

RECURSIVE SeqLess(_, _)
SeqLess(s, t) ==
    IF s = <<>> THEN t # <<>>
    ELSE IF t = <<>> THEN FALSE
    ELSE IF s[1] # t[1] THEN s[1] < t[1]
    ELSE SeqLess(Tail(s), Tail(t))

PathLess(p, q) == SeqLess(PathKey(p), PathKey(q))

\* sorted(...) of a set of paths.
RECURSIVE SortPaths(_)
SortPaths(S) ==
    IF S = {} THEN <<>>
    ELSE LET m == CHOOSE x \in S : \A y \in S \ {x} : PathLess(x, y)
         IN  <<m>> \o SortPaths(S \ {m})

\* ------------------------------------------------------- the file universe
ArchiveDir == <<"arch">>
PdfX == Name("x", <<>>, "pdf")
PdfX1 == Name("x", <<1>>, "pdf")

\* Files the input folders may hold when the program starts.
InputUniverse == { PathOf(<<"a", "sub">>, PdfX), PathOf(<<"b">>, PdfX) }

\* A file that is not a PDF: discovery never reports it.
OtherFile == PathOf(<<"a">>, Name("x", <<>>, "txt"))

\* Files the archive directory may hold when the program starts.
ArchiveUniverse == { PathOf(ArchiveDir, PdfX1) }

InputDirs == { <<"a">>, <<"a", "sub">>, <<"b">> }

\* Spellings of input folders in a configuration, before normalisation.
F_a == <<"a">>
F_dot_a == <<".", "a">>
F_a_up_a == <<"a", "..", "a">>
F_sub == <<"a", "sub">>
F_b == <<"b">>
F_missing == <<"zz">>

\* The lists of input folders: none, a missing one, single folders, two
\* folders in both orders, a folder listed twice, overlapping folders, and
\* one directory under two and under three spellings.
FolderLists ==
    { <<>>, <<F_missing>>, <<F_a>>, <<F_b>>, <<F_sub>>, <<F_missing, F_b>>,
      <<F_a, F_b>>, <<F_b, F_a>>, <<F_a, F_a>>, <<F_a, F_sub>>, <<F_sub, F_a>>,
      <<F_a, F_dot_a>>, <<F_a, F_a_up_a>>, <<F_a_up_a, F_b>>,
      <<F_a, F_a_up_a, F_b>>, <<F_dot_a, F_a_up_a, F_a>> }

\* ------------------------------------------------------------------- state
VARIABLES
    config,      \* the loaded configuration (load_config), fixed for the process
    args,        \* the parsed command line (parse_args), fixed for the process
    environ,     \* os.environ: the value of the password variable, or None
    files,       \* the files on disk, each by its resolved path
    dirs,        \* the directories on disk
    log,         \* the entries appended to the CSV log so far, in order
    logExists,   \* whether the log file exists (log_path.exists())
    csv,         \* the rows of the log file as they were written
    digests,     \* digest files: timestamp -> what was written, and by which run
    clock,       \* the UTC clock, in seconds
    runs,        \* runs started so far
    pc,          \* position of the current run
    decision_mode, \* the result of _resolve_decision_mode
    metadata_lookup, \* the result of _build_metadata_lookup
    papers,      \* the result of discover_papers
    actions,     \* the list triage_papers builds: [paper, decision]
    idx,         \* index of the paper or action being processed
    log_entries, \* the entries of this run
    digest_path, \* the digest this run wrote: its timestamp, or -1
    calls,       \* collaborator calls of this run
    trace,       \* the steps of this run, in order: <<step, path of the paper>>
    moves,       \* moves done so far: [src, dst, run, before]
    start,       \* the disk when this run started
    mail         \* what maybe_send_email did in this run

vars == << config, args, environ, files, dirs, log, logExists, csv, digests, clock, runs,
           pc, decision_mode, metadata_lookup, papers, actions, idx, log_entries, digest_path,
           calls, trace, moves, start, mail >>

\* ---------------------------------------------------------------- metadata
\* File names and file paths as the metadata sources spell them: a name is a
\* string, a path the sequence of its components, "" the empty sequence.
N_X == << "X", ".", "p", "d", "f" >>
N_x == << "x", ".", "p", "d", "f" >>
N_y == << "y", ".", "p", "d", "f" >>
N_noext == << "y" >>

\* Path(file_path).name
PathName(file_path) == file_path[Len(file_path)]

\* Path(file_path).stem: the name without its last suffix.
Stem(name) ==
    LET dots == { i \in 2..Len(name) : name[i] = "." }
    IN  IF dots = {} THEN name
        ELSE SubSeq(name, 1, (CHOOSE i \in dots : \A j \in dots : j <= i) - 1)

\* a or b, on optional strings.
Or(a, b) == IF Truthy(a) THEN a ELSE b

\* row.get(c1) or row.get(c2) or ... or ""
RECURSIVE FirstTruthy(_, _)
FirstTruthy(row, columns) ==
    IF columns = <<>> THEN <<>>
    ELSE Or(Get(row, Head(columns), None), FirstTruthy(row, Tail(columns)))

\* Titles, authors and years as the sources give them.
Title1 == << "T", "1" >>
Title2 == << "T", "2" >>
Title3 == << "T", "3" >>
Author1 == << "A", "1" >>
Year1 == << "9", "9" >>

\* A piece of an attachment cell that is blank; strip() leaves "" of it.
Blank == << << " " >> >>
Strip(piece) == IF piece = Blank THEN <<>> ELSE piece

\* The types a source may name.
T_bookmarks == << "b", "o", "o", "k", "m", "a", "r", "k", "s" >>
T_Bookmarks == << "B", "o", "o", "k", "m", "a", "r", "k", "s" >>
T_zotero == << "z", "o", "t", "e", "r", "o" >>
T_mendeley == << "m", "e", "n", "d", "e", "l", "e", "y" >>
T_endnote == << "e", "n", "d", "n", "o", "t", "e" >>

\* The columns of the reference export on disk, and a row of it: its cells by
\* column name, "" where a cell is empty.
ZotColumns ==
    << "File Attachments", "Attachments", "path", "Title", "title", "Author", "Authors",
       "Year" >>
CsvRow(cells) ==
    [ c \in { ZotColumns[i] : i \in DOMAIN ZotColumns } |->
        cells[CHOOSE i \in DOMAIN ZotColumns : ZotColumns[i] = c] ]

\* The metadata files on disk, by path.  A file is JSON (a list, or an object),
\* CSV with a header row (a row is its cells by column name; an attachment
\* cell is the sequence of its pieces between semicolons), or bytes that are
\* no text.  "gone.json" is not there.
MetaDisk ==
    ( "bm1.json" :> [ format |-> "json", isdict |-> FALSE,
                      data |-> << [ path |-> << << "d" >>, N_X >>, title |-> Title1 ],
                                  [ title |-> Title2 ],
                                  [ path |-> <<>>, file |-> << N_y >>, title |-> <<>> ] >> ] )
    @@ ( "bm2.json" :> [ format |-> "json", isdict |-> TRUE,
                         data |-> [ bookmarks |->
                                    << [ path |-> << N_x >>, title |-> Title2 ],
                                       [ file |-> << << "e" >>, N_X >>, title |-> Title3 ] >> ] ] )
    @@ ( "bm3.json" :> [ format |-> "json", isdict |-> TRUE, data |-> [ version |-> <<>> ] ] )
    @@ ( "zot.csv" :> [ format |-> "csv",
                        rows |-> << CsvRow(<< << << << "d" >>, N_x >>, << N_y >> >>, <<>>, <<>>,
                                              Title3, <<>>, Author1, <<>>, Year1 >>),
                                    CsvRow(<< <<>>, << Blank, << N_X >> >>, <<>>,
                                              Title1, <<>>, <<>>, <<>>, <<>> >>),
                                    CsvRow(<< <<>>, <<>>, << << N_noext >> >>,
                                              <<>>, <<>>, <<>>, Author1, <<>> >>) >> ] )
    @@ ( "bad.bin" :> [ format |-> "bytes" ] )

\* _parse_bookmarks_json: the records of the entries that name a file.
RECURSIVE BookmarkRecords(_, _)
BookmarkRecords(entries, path) ==
    IF entries = <<>> THEN <<>>
    ELSE LET entry == Head(entries)
             file_path == Or(Get(entry, "path", None), Or(Get(entry, "file", None), <<>>))
         IN  (IF ~Truthy(file_path) THEN <<>>
              ELSE << [ title |-> Or(Get(entry, "title", None), Stem(PathName(file_path))),
                        file_key |-> Lower(PathName(file_path)),
                        source |-> path ] >>)
             \o BookmarkRecords(Tail(entries), path)

\* _parse_bookmarks_json: json.load raises on a file that is no JSON.
_parse_bookmarks_json(path, content) ==
    IF content.format # "json" THEN [ raised |-> TRUE, records |-> <<>> ]
    ELSE LET entries == IF content.isdict
                        THEN Or(Get(content.data, "bookmarks", None), <<>>)
                        ELSE content.data
         IN  [ raised |-> FALSE, records |-> BookmarkRecords(entries, path) ]

\* _parse_reference_export: the records of the rows that name an attachment.
RECURSIVE ReferenceRecords(_, _)
ReferenceRecords(rows, path) ==
    IF rows = <<>> THEN <<>>
    ELSE LET row == Head(rows)
             cell == FirstTruthy(row, << "File Attachments", "Attachments", "file", "path" >>)
             attachment == IF Truthy(cell) THEN Strip(Head(cell)) ELSE <<>>
         IN  (IF ~Truthy(attachment) THEN <<>>
              ELSE << [ title |-> Or(Get(row, "Title", None),
                                     Or(Get(row, "title", None), Stem(PathName(attachment)))),
                        file_key |-> Lower(PathName(attachment)),
                        authors |-> Or(Get(row, "Author", None), Get(row, "Authors", None)),
                        year |-> Get(row, "Year", None),
                        source |-> path ] >>)
             \o ReferenceRecords(Tail(rows), path)

\* _parse_reference_export: a file that is no text raises; the lines of a
\* JSON file read as CSV have none of the attachment columns.
_parse_reference_export(path, content) ==
    IF content.format = "bytes" THEN [ raised |-> TRUE, records |-> <<>> ]
    ELSE [ raised |-> FALSE,
           records |-> IF content.format = "csv" THEN ReferenceRecords(content.rows, path)
                       ELSE <<>> ]

\* Mutant of InsertRecord: the fields of an earlier record are kept.
InsertRecord_Merge(lookup, record) ==
    IF record.file_key \in DOMAIN lookup
    THEN (record.file_key :> (record @@ lookup[record.file_key])) @@ lookup
    ELSE (record.file_key :> record) @@ lookup

\* _build_metadata_lookup, line 76: lookup[file_key] = record.
InsertRecord(lookup, record) == (record.file_key :> record) @@ lookup

\* _build_metadata_lookup, lines 72-76: the records of one source.
RECURSIVE InsertRecords(_, _)
InsertRecords(lookup, records) ==
    IF records = <<>> THEN lookup
    ELSE InsertRecords(IF ~Truthy(Head(records).file_key) THEN lookup
                       ELSE InsertRecord(lookup, Head(records)),
                       Tail(records))

\* _build_metadata_lookup, lines 54-70: the records a source contributes;
\* none when its file is missing, its type unknown or its parser raised.
SourceRecords(source, disk) ==
    LET source_type == Lower(Or(Get(source, "type", None), T_bookmarks))
        path == source.path
    IN  IF path \notin DOMAIN disk THEN <<>>
        ELSE IF source_type = T_bookmarks
        THEN LET r == _parse_bookmarks_json(path, disk[path])
             IN  IF r.raised THEN <<>> ELSE r.records
        ELSE IF source_type \in { T_zotero, T_mendeley }
        THEN LET r == _parse_reference_export(path, disk[path])
             IN  IF r.raised THEN <<>> ELSE r.records
        ELSE <<>>

\* _build_metadata_lookup: the lookup after the last source; no exception of
\* a parser leaves the function.
RECURSIVE BuildFrom(_, _, _)
BuildFrom(lookup, sources, disk) ==
    IF sources = <<>> THEN lookup
    ELSE BuildFrom(InsertRecords(lookup, SourceRecords(Head(sources), disk)),
                   Tail(sources), disk)

_build_metadata_lookup(sources, disk) == BuildFrom(<<>>, sources, disk)

\* --------------------------------------------------------------- discovery
\* folder_path.rglob("*.pdf"): the PDF files below a folder, each named
\* through the folder's own spelling.
RglobPdf(folder_path, fs) ==
    LET root == ResolveDir(folder_path)
    IN  { PathOf(folder_path \o SubSeq(f.dir, Len(root) + 1, Len(f.dir)), f.name) :
            f \in { g \in fs : IsPrefix(root, g.dir) /\ g.name.ext = "pdf" } }

\* The key under which discover_papers remembers a path it has emitted.
SeenKey(pdf_path) == pdf_path

\* The inner loop of discover_papers over one folder's sorted paths.
RECURSIVE ScanFolder(_, _, _)
ScanFolder(sorted, candidates, seen_paths) ==
    IF sorted = <<>> THEN [candidates |-> candidates, seen_paths |-> seen_paths]
    ELSE LET pdf_path == Head(sorted)
         IN  IF SeenKey(pdf_path) \in seen_paths
             THEN ScanFolder(Tail(sorted), candidates, seen_paths)
             ELSE ScanFolder(Tail(sorted),
                             Append(candidates, [path |-> pdf_path]),
                             seen_paths \cup { SeenKey(pdf_path) })

\* The outer loop of discover_papers over the configured folders.
RECURSIVE ScanFolders(_, _, _, _, _)
ScanFolders(folders, fs, ds, candidates, seen_paths) ==
    IF folders = <<>> THEN candidates
    ELSE LET folder_path == PurePath(Head(folders))
         IN  IF ResolveDir(folder_path) \notin ds
             THEN ScanFolders(Tail(folders), fs, ds, candidates, seen_paths)
             ELSE LET r == ScanFolder(SortPaths(RglobPdf(folder_path, fs)),
                                      candidates, seen_paths)
                  IN  ScanFolders(Tail(folders), fs, ds, r.candidates, r.seen_paths)

discover_papers(folders, fs, ds) == ScanFolders(folders, fs, ds, <<>>, {})

\* ----------------------------------------------------------- decision mode
Overrides == { None, Str_keep, Str_remove, Str_skip }
Defaults == { Str_keep, Str_R, Str_skip, Str_retain, Str_delete, Str_empty, None }

\* config["auto_decision"]: the "default" key may be absent.
AutoConfigs ==
    { [enabled |-> e] : e \in BOOLEAN }
        \cup { [enabled |-> e, default |-> d] : e \in BOOLEAN, d \in Defaults }

_resolve_decision_mode(auto_cfg, auto_decision) ==
    IF Truthy(auto_decision) THEN auto_decision
    ELSE IF Get(auto_cfg, "enabled", FALSE) THEN Get(auto_cfg, "default", Str_keep)
    ELSE None

\* _auto_decide: the decision, or a ValueError.
_auto_decide(mode) ==
    LET short == LowerChar(mode[1])
    IN  IF short \in { "k", "r", "s" }
        THEN [raised |-> FALSE, decision |-> short]
        ELSE [raised |-> TRUE, decision |-> "none"]

\* Whether triage_papers takes the automatic branch.
UsesAuto(auto_decision) == Truthy(auto_decision)

\* ----------------------------------------------------------------- archive
WithCounter(target, counter) ==
    PathOf(target.dir,
           Name(target.name.base, Append(target.name.sfx, counter), target.name.ext))

\* Mutant of _unique_target: the name is taken as it is.
_unique_target_overwrite(target, fs) == target

\* _unique_target: the target itself when free, else the first free
\* stem-1, stem-2, ...
_unique_target(target, fs) ==
    IF target \notin fs THEN target
    ELSE LET free == { c \in 1..(Cardinality(fs) + 1) : WithCounter(target, c) \notin fs }
             counter == CHOOSE c \in free : \A d \in free : c <= d
         IN  WithCounter(target, counter)

\* Mutant of ShouldMove: the dry-run flag is not looked at.
ShouldMove_IgnoresDryRun(decision, dry) == decision = "r"

\* Whether triage_once moves the file of an action.
ShouldMove(decision, dry) == decision = "r" /\ ~dry

\* ------------------------------------------------------------------- email
Sender == <<"m", "e">>
Recipient == <<"y", "o", "u">>
PasswordVar == <<"P", "W">>
Secret == <<"p", "w">>

\* Mutant of ReachesSend: an empty recipient list is not refused.
ReachesSend_AnyRecipients(email_cfg, entries, password) ==
    /\ email_cfg.enabled
    /\ entries # <<>>
    /\ Truthy(email_cfg.sender)
    /\ Truthy(email_cfg.password_env) => Truthy(password)

\* Whether maybe_send_email reaches send_message: its early returns, in order.
\* password is os.environ.get(password_env).
ReachesSend(email_cfg, entries, password) ==
    IF ~email_cfg.enabled THEN FALSE
    ELSE IF entries = <<>> THEN FALSE
    ELSE IF ~Truthy(email_cfg.sender) \/ email_cfg.recipients = <<>> THEN FALSE
    ELSE IF Truthy(email_cfg.password_env) /\ ~Truthy(password) THEN FALSE
    ELSE TRUE

\* Whether an exception of send_message leaves maybe_send_email.
SendErrorEscapes(fails) == FALSE

\* maybe_send_email; fails is whether send_message raises.
maybe_send_email(email_cfg, entries, password, fails) ==
    LET sent == ReachesSend(email_cfg, entries, password)
    IN  [ sends |-> IF sent THEN 1 ELSE 0,
          raised |-> sent /\ fails,
          escaped |-> sent /\ fails /\ SendErrorEscapes(fails) ]

NoMail == [ sends |-> 0, raised |-> FALSE, escaped |-> FALSE ]

\* --------------------------------------------------------------------- log
\* The column names of the log, in the order of the header.
LOG_FIELDS == << "timestamp", "title", "path", "summary", "decision", "dry_run" >>

\* csv.DictWriter: the header row, and the row of an entry.
writeheader == [ kind |-> "header", cells |-> LOG_FIELDS ]
writerow(entry) == [ kind |-> "row", cells |-> entry ]

\* append_log_entry: the file is opened for appending; the header is written
\* when the file was not there before the call, then the row of the entry.
append_log_entry(rows, file_exists, entry) ==
    rows \o (IF ~file_exists THEN << writeheader >> ELSE << >>) \o << writerow(entry) >>

\* What an interruption inside append_log_entry leaves of the file: nothing
\* yet ("before"), the file opened and so created but nothing written
\* ("opened"), or the header written and flushed when the file is closed but
\* not the row ("header").
InterruptedAppend(rows, file_exists, at) ==
    [ exists |-> file_exists \/ at \in { "opened", "header" },
      rows |-> IF at = "header" /\ ~file_exists THEN rows \o << writeheader >> ELSE rows ]

\* ------------------------------------------------------------------ digest
\* write_digest: write_text on digest-<timestamp>.md, replacing what is there.
write_digest(ds, t, run, entries) == (t :> [run |-> run, entries |-> entries]) @@ ds

\* What an interruption inside write_digest leaves: write_text has opened
\* the file of this second, which empties it, and written nothing.
InterruptedDigest(ds, t, run) == (t :> [run |-> run, entries |-> <<>>]) @@ ds

\* ------------------------------------------------------- the configurations
Mode(o, ac) == [auto_decision |-> o, auto_cfg |-> ac]

AllModes == { Mode(o, ac) : o \in Overrides, ac \in AutoConfigs }

\* Interactive, a fixed decision from the command line, one from the file.
BaseModes ==
    { Mode(None, [enabled |-> FALSE]),
      Mode(Str_remove, [enabled |-> FALSE]),
      Mode(None, [enabled |-> TRUE, default |-> Str_skip]) }

EmailConfig(e, s, r, p) ==
    [enabled |-> e, sender |-> s, recipients |-> r, password_env |-> p]

AllEmails ==
    { EmailConfig(e, s, r, p) : e \in BOOLEAN, s \in { None, Sender },
                                r \in { <<>>, <<Recipient>> }, p \in { None, PasswordVar } }

\* The email section of the default configuration of load_config.
BaseEmails == { EmailConfig(FALSE, Sender, <<>>, None) }

AllEnvirons == { None, <<>>, Secret }
BaseEnvirons == { None }

\* config["metadata_sources"]: a source is a path and, optionally, a type.
MetaSource(type, path) == [ type |-> type, path |-> path ]

MetaSources ==
    { [ path |-> "bm1.json" ], [ path |-> "gone.json" ], [ path |-> "zot.csv" ],
      MetaSource(T_Bookmarks, "bm2.json"), MetaSource(T_bookmarks, "bm3.json"),
      MetaSource(T_zotero, "zot.csv"), MetaSource(T_mendeley, "bad.bin"),
      MetaSource(T_zotero, "bm1.json"), MetaSource(T_endnote, "bm2.json") }

\* The source lists of the metadata slice: no source, every single source,
\* every pair of sources that name a file that is there, and lists of three
\* with a source that contributes nothing in the middle.
AllMetas ==
    { <<>> } \cup { << a >> : a \in MetaSources }
        \cup { << a, b >> : a, b \in { [ path |-> "bm1.json" ],
                                        MetaSource(T_Bookmarks, "bm2.json"),
                                        MetaSource(T_zotero, "zot.csv"),
                                        MetaSource(T_zotero, "bm1.json"),
                                        MetaSource(T_mendeley, "bad.bin") } }
        \cup { << a, b, c >> : a \in { MetaSource(T_zotero, "zot.csv"), [ path |-> "bm1.json" ] },
                               b \in { MetaSource(T_mendeley, "bad.bin"), [ path |-> "gone.json" ],
                                       MetaSource(T_endnote, "bm2.json") },
                               c \in { MetaSource(T_Bookmarks, "bm2.json") } }

\* No metadata source is configured.
BaseMetas == { <<>> }

\* Collaborator calls of a run: the calls of summary_fn made, returned or not,
\* whether the operator was prompted, whether a file was opened for them.
NoCalls == [ summarize |-> 0, prompt |-> FALSE, open |-> FALSE ]

\* -------------------------------------------------------------------- init
\* The state when main() has loaded the configuration and parsed the command
\* line, for the configurations of one slice of the input space.
InitWith(Folders, Metas, Modes, Emails, Environs) ==
    /\ \E fl \in Folders, ms \in Metas, m \in Modes, d \in BOOLEAN, e \in Emails,
          dry \in BOOLEAN :
          /\ config = [ input_folders |-> fl, metadata_sources |-> ms,
                        auto_decision |-> m.auto_cfg, digest |-> d, email |-> e ]
          /\ args = [ dry_run |-> dry, auto_decision |-> m.auto_decision ]
    /\ environ \in Environs
    /\ \E arc \in SUBSET ArchiveUniverse :
          /\ files = InputUniverse \cup arc \cup { OtherFile }
          /\ dirs = InputDirs \cup (IF arc = {} THEN {} ELSE { ArchiveDir })
    /\ log = <<>>
    /\ logExists = FALSE
    /\ csv = <<>>
    /\ digests = <<>>
    /\ clock = 0
    /\ runs = 0
    /\ pc = "idle"
    /\ decision_mode = None
    /\ metadata_lookup = <<>>
    /\ papers = <<>>
    /\ actions = <<>>
    /\ idx = 0
    /\ log_entries = <<>>
    /\ digest_path = -1
    /\ calls = NoCalls
    /\ trace = <<>>
    /\ moves = <<>>
    /\ start = [ files |-> files, dirs |-> dirs, logLen |-> 0, digests |-> <<>> ]
    /\ mail = NoMail

Init == InitWith(FolderLists, BaseMetas, BaseModes, BaseEmails, BaseEnvirons)

\* ------------------------------------------------------------- the actions
\* triage_once, lines 114-117: discovery; no paper ends the run.
StartRun ==
    /\ pc \in { "idle", "done", "failed", "interrupted" }
    /\ runs < MaxRuns
    /\ metadata_lookup' = _build_metadata_lookup(config.metadata_sources, MetaDisk)
    /\ papers' = discover_papers(config.input_folders, files, dirs)
    /\ pc' = IF papers' = <<>> THEN "done" ELSE "prepare"
    /\ runs' = runs + 1
    /\ decision_mode' = None
    /\ actions' = <<>>
    /\ idx' = 0
    /\ log_entries' = <<>>
    /\ digest_path' = -1
    /\ calls' = NoCalls
    /\ trace' = <<>>
    /\ start' = [ files |-> files, dirs |-> dirs, logLen |-> Len(log), digests |-> digests ]
    /\ mail' = NoMail
    /\ UNCHANGED << config, args, environ, files, dirs, log, logExists, csv, digests, clock,
                    moves >>

\* triage_once, lines 119-132: the archive directory is created, then the
\* decision mode is resolved.
Prepare ==
    /\ pc = "prepare"
    /\ dirs' = IF ~args.dry_run THEN dirs \cup { ArchiveDir } ELSE dirs
    /\ decision_mode' = _resolve_decision_mode(config.auto_decision, args.auto_decision)
    /\ idx' = 1
    /\ pc' = "summarize"
    /\ UNCHANGED << config, args, environ, files, log, logExists, csv, digests, clock, runs,
                    metadata_lookup, papers, actions, log_entries, digest_path, calls, trace,
                    moves, start, mail >>

\* Mutant of PaperAt: the papers are taken last to first.
PaperAt_Reversed(ps, i) == ps[Len(ps) + 1 - i]

\* triage_papers, line 32: the paper of the i-th iteration of the loop.
PaperAt(ps, i) == ps[i]

\* triage_papers, line 34: the summary of paper idx.
Summarize ==
    /\ pc = "summarize"
    /\ calls' = [calls EXCEPT !.summarize = @ + 1]
    /\ trace' = Append(trace, <<"summary", PaperAt(papers, idx).path>>)
    /\ pc' = "decide"
    /\ UNCHANGED << config, args, environ, files, dirs, log, logExists, csv, digests, clock,
                    runs, decision_mode, metadata_lookup, papers, actions, idx, log_entries, digest_path,
                    moves, start, mail >>

\* triage_papers, line 34: summary_fn raises (extract_text on a max_pages
\* that is not positive, summarize_text without the ollama package on a PDF
\* that has text); summary_fn has been called, and the exception leaves
\* triage_papers and triage_once.
SummarizeRaises ==
    /\ pc = "summarize"
    /\ calls' = [calls EXCEPT !.summarize = @ + 1]
    /\ pc' = "failed"
    /\ UNCHANGED << config, args, environ, files, dirs, log, logExists, csv, digests, clock,
                    runs, decision_mode, metadata_lookup, papers, actions, idx, log_entries,
                    digest_path, trace, moves, start, mail >>

\* triage_papers, line 39: actions.append((paper, summary, decision)).
RecordAction(acts, paper, decision) ==
    Append(acts, [paper |-> paper, decision |-> decision])

\* The end of one iteration of the loop of triage_papers.
Decided(decision) ==
    /\ actions' = RecordAction(actions, PaperAt(papers, idx), decision)
    /\ trace' = Append(trace, <<"decision", PaperAt(papers, idx).path>>)
    /\ IF idx < Len(papers)
       THEN idx' = idx + 1 /\ pc' = "summarize"
       ELSE idx' = 1 /\ pc' = "move"

\* triage_papers, lines 35-36: the automatic decision, or its ValueError.
DecideAuto ==
    /\ pc = "decide"
    /\ UsesAuto(decision_mode)
    /\ LET r == _auto_decide(decision_mode)
       IN  IF r.raised
           THEN pc' = "failed" /\ UNCHANGED << actions, trace, idx >>
           ELSE Decided(r.decision)
    /\ UNCHANGED << config, args, environ, files, dirs, log, logExists, csv, digests, clock,
                    runs, decision_mode, metadata_lookup, papers, log_entries, digest_path,
                    calls, moves, start, mail >>

\* What the operator may type at the prompt; the empty answer is the default.
Answers == { <<>>, <<"k">>, <<"r">>, <<"s">>, <<"R">>, <<"o">>, <<"x">> }

\* Prompt.ask(..., default="k").strip().lower()
Choice(answer) == Lower(IF answer = <<>> THEN <<"k">> ELSE answer)

\* _prompt_for_decision: an answer that is a decision.
PromptDecide ==
    /\ pc = "decide"
    /\ ~UsesAuto(decision_mode)
    /\ \E answer \in Answers :
          /\ Choice(answer) \in { <<"k">>, <<"r">>, <<"s">> }
          /\ Decided(Choice(answer)[1])
    /\ calls' = [calls EXCEPT !.prompt = TRUE]
    /\ UNCHANGED << config, args, environ, files, dirs, log, logExists, csv, digests, clock,
                    runs, decision_mode, metadata_lookup, papers, log_entries, digest_path,
                    moves, start, mail >>

\* _prompt_for_decision: "o" opens the file, anything else is refused; the
\* prompt is shown again.
PromptRetry ==
    /\ pc = "decide"
    /\ ~UsesAuto(decision_mode)
    /\ \E answer \in Answers :
          /\ Choice(answer) \notin { <<"k">>, <<"r">>, <<"s">> }
          /\ calls' = [calls EXCEPT !.prompt = TRUE,
                                    !.open = @ \/ Choice(answer) = <<"o">>]
    /\ UNCHANGED << config, args, environ, files, dirs, log, logExists, csv, digests, clock,
                    runs, pc, decision_mode, metadata_lookup, papers, actions, idx, log_entries,
                    digest_path, trace, moves, start, mail >>

\* Mutant of LoopItem: the actions are handled last to first.
LoopItem_Reversed(acts, i) == acts[Len(acts) + 1 - i]

\* triage_once, line 141: the action the loop handles in its i-th iteration.
LoopItem(acts, i) == acts[i]

\* The files of the archive directory.
ArchiveFiles(fs) == { f \in fs : f.dir = ArchiveDir }

\* Mutant of AfterMove: the loop moves every file first and logs afterwards.
AfterMove_Batch(i, n) ==
    IF i < n THEN [ idx |-> i + 1, pc |-> "move" ] ELSE [ idx |-> 1, pc |-> "log" ]

\* triage_once, lines 142-154: after the move step of the i-th of n actions
\* comes the log-append of the same action.
AfterMove(i, n) == [ idx |-> i, pc |-> "log" ]

\* triage_once, lines 142-145: the move of action idx, when it is a removal.
\* shutil.move raises when the source is no longer there.
Move ==
    /\ pc = "move"
    /\ LET a == LoopItem(actions, idx)
           src == Resolve(a.paper.path)
           target == _unique_target(PathOf(ArchiveDir, a.paper.path.name), files)
           next == AfterMove(idx, Len(actions))
       IN  IF ~ShouldMove(a.decision, args.dry_run)
           THEN pc' = next.pc /\ idx' = next.idx /\ UNCHANGED << files, moves, trace >>
           ELSE IF src \notin files
           THEN pc' = "failed" /\ UNCHANGED << idx, files, moves, trace >>
           ELSE /\ files' = (files \ { src }) \cup { target }
                /\ moves' = Append(moves, [src |-> src, dst |-> target, run |-> runs,
                                           before |-> ArchiveFiles(files)])
                /\ trace' = Append(trace, <<"move", a.paper.path>>)
                /\ pc' = next.pc /\ idx' = next.idx
    /\ UNCHANGED << config, args, environ, dirs, log, logExists, csv, digests, clock, runs,
                    decision_mode, metadata_lookup, papers, actions, log_entries, digest_path,
                    calls, start, mail >>

\* triage_once, lines 146-153: the entry of an action.
LogEntry(a, dry) == [ path |-> a.paper.path, decision |-> a.decision, dry_run |-> dry ]

\* triage_once, lines 146-155, and append_log_entry: the row of action idx.
Log ==
    /\ pc = "log"
    /\ LET a == LoopItem(actions, idx)
           entry == LogEntry(a, args.dry_run)
       IN  /\ log' = Append(log, entry)
           /\ csv' = append_log_entry(csv, logExists, entry)
           /\ log_entries' = Append(log_entries, entry)
           /\ trace' = Append(trace, <<"log", a.paper.path>>)
    /\ logExists' = TRUE
    /\ IF idx < Len(actions)
       THEN idx' = idx + 1 /\ pc' = "move"
       ELSE idx' = 0 /\ pc' = "digest"
    /\ UNCHANGED << config, args, environ, files, dirs, digests, clock, runs,
                    decision_mode, metadata_lookup, papers, actions, digest_path, calls, moves,
                    start, mail >>

\* triage_once, lines 157-160: the digest of the run, named by the second
\* the clock shows when it is written.
Digest ==
    /\ pc = "digest"
    /\ IF log_entries # <<>> /\ config.digest
       THEN \E t \in clock..MaxClock :
               /\ t <= clock + 1
               /\ clock' = t
               /\ digests' = write_digest(digests, t, runs, log_entries)
               /\ digest_path' = t
       ELSE UNCHANGED << clock, digests, digest_path >>
    /\ pc' = "email"
    /\ UNCHANGED << config, args, environ, files, dirs, log, logExists, csv, runs,
                    decision_mode, metadata_lookup, papers, actions, idx, log_entries, calls,
                    trace, moves, start, mail >>

\* triage_once, line 162: maybe_send_email, then the run returns.
Email ==
    /\ pc = "email"
    /\ \E fails \in BOOLEAN :
          mail' = maybe_send_email(config.email, log_entries, environ, fails)
    /\ pc' = IF mail'.escaped THEN "failed" ELSE "done"
    /\ UNCHANGED << config, args, environ, files, dirs, log, logExists, csv, digests, clock,
                    runs, decision_mode, metadata_lookup, papers, actions, idx, log_entries, digest_path,
                    calls, trace, moves, start >>

\* The process is interrupted (a signal, a kill) at any point of a run; what
\* is on disk stays.  An interruption at the summary may fall inside
\* summary_fn, one at the log-append inside append_log_entry, one at the
\* digest inside write_digest, and one at the mail after send_message has
\* returned or has raised and been caught.  A later run is a new process.
Interrupt ==
    /\ pc \in { "prepare", "summarize", "decide", "move", "log", "digest", "email" }
    /\ pc' = "interrupted"
    /\ IF pc = "log"
       THEN \E at \in { "before", "opened", "header" } :
               LET r == InterruptedAppend(csv, logExists, at)
               IN  logExists' = r.exists /\ csv' = r.rows
       ELSE UNCHANGED << logExists, csv >>
    /\ IF pc = "digest" /\ log_entries # <<>> /\ config.digest
       THEN \/ UNCHANGED << digests, clock >>
            \/ \E t \in clock..MaxClock :
                  /\ t <= clock + 1
                  /\ clock' = t
                  /\ digests' = InterruptedDigest(digests, t, runs)
       ELSE UNCHANGED << digests, clock >>
    /\ IF pc = "email"
       THEN \/ UNCHANGED mail
            \/ \E fails \in BOOLEAN :
                  mail' = maybe_send_email(config.email, log_entries, environ, fails)
       ELSE UNCHANGED mail
    /\ IF pc = "summarize"
       THEN \E called \in BOOLEAN :
               calls' = IF called THEN [calls EXCEPT !.summarize = @ + 1] ELSE calls
       ELSE UNCHANGED calls
    /\ UNCHANGED << config, args, environ, files, dirs, log, runs,
                    decision_mode, metadata_lookup, papers, actions, idx, log_entries,
                    digest_path, trace, moves, start >>

Next ==
    \/ StartRun
    \/ Prepare
    \/ Summarize
    \/ SummarizeRaises
    \/ DecideAuto
    \/ PromptDecide
    \/ PromptRetry
    \/ Move
    \/ Log
    \/ Digest
    \/ Email
    \/ Interrupt

Spec == Init /\ [][Next]_vars

\* The modes of SpecMode: every override with every automatic configuration.
InitMode == InitWith({ <<>>, <<F_a, F_b>> }, BaseMetas, AllModes, BaseEmails, BaseEnvirons)

SpecMode == InitMode /\ [][Next]_vars

\* The email settings of SpecEmail: every email section with every value of
\* the password variable.
InitEmail == InitWith({ <<>>, <<F_b>> }, BaseMetas, BaseModes, AllEmails, AllEnvirons)

SpecEmail == InitEmail /\ [][Next]_vars

\* The metadata slice: every list of metadata sources, with one input folder.
InitMeta == InitWith({ <<F_b>> }, AllMetas, BaseModes, BaseEmails, BaseEnvirons)

SpecMeta == InitMeta /\ [][Next]_vars

\* ---------------------------------------------------------------- run facts
\* The rows this run has appended to the log.
RunRows == SubSeq(log, start.logLen + 1, Len(log))

\* A run is over: it returned or raised.
RunOver == runs > 0 /\ pc \in { "done", "failed" }

\* The loop over the actions has ended (triage_once is at line 157 or later).
Archived == pc \in { "digest", "email" } \/ (pc = "done" /\ papers # <<>>)

\* triage_papers has returned.
Triaged == pc \in { "move", "log" } \/ Archived

\* ------------------------------------------------------------------ claims
\* C1: the output of discover_papers holds no two candidates whose resolved
\* path is the same file, whatever the list of input folders.
C1_ResolvedPathsUnique ==
    \A i, j \in DOMAIN papers :
        i # j => Resolve(papers[i].path) # Resolve(papers[j].path)

\* C2: triage_papers returns one action per candidate, the i-th action for the
\* i-th candidate, and the rows the run appends to the log follow the actions
\* in order: one row per action once the run has logged them all.
C2_ActionsAndRowsInDiscoveryOrder ==
    /\ Len(actions) <= Len(papers)
    /\ \A i \in DOMAIN actions : actions[i].paper = papers[i]
    /\ Triaged => Len(actions) = Len(papers)
    /\ Len(RunRows) <= Len(actions)
    /\ \A i \in DOMAIN RunRows :
          /\ RunRows[i].path = actions[i].paper.path
          /\ RunRows[i].decision = actions[i].decision
    /\ Archived => Len(RunRows) = Len(actions)
    /\ RunRows = log_entries

\* C2 witness: a second run of two papers with different decisions is logged
\* after the rows of the first run.
C2_Witness ==
    /\ pc = "done"
    /\ start.logLen > 0
    /\ Len(papers) = 2
    /\ Len(RunRows) = 2
    /\ RunRows[1].decision # RunRows[2].decision

\* The decision mode is a fixed "remove".
AutoRemove == UsesAuto(decision_mode) /\ LowerChar(decision_mode[1]) = "r"

\* C3: when a run is over in which every paper got its decision (no summary
\* raised), a discovered file has left its input folder if and
\* only if its action decided remove and the run is no dry run; after a
\* non-dry run with auto-decision remove every discovered file is in the
\* archive and the run has logged one row per file, each with decision "r".
C3_MovedIffRemove ==
    (RunOver /\ Len(actions) = Len(papers)) =>
        /\ \A i \in DOMAIN papers :
              (Resolve(papers[i].path) \notin files)
                  <=> (i \in DOMAIN actions /\ ShouldMove(actions[i].decision, args.dry_run))
        /\ (AutoRemove /\ ~args.dry_run) =>
              /\ \A i \in DOMAIN papers :
                    \E k \in DOMAIN moves :
                        /\ moves[k].src = Resolve(papers[i].path)
                        /\ moves[k].run = runs
                        /\ moves[k].dst \in ArchiveFiles(files)
              /\ Len(RunRows) = Len(papers)
              /\ \A i \in DOMAIN RunRows : RunRows[i].decision = "r"

\* C4: a move into the archive never replaces a file: its target was free, it
\* is the unsuffixed name when that was free and else the first free
\* stem-1, stem-2, ...; no archived file is lost afterwards, so N moves of one
\* base name leave N distinct files.
C4_ArchiveNeverOverwrites ==
    \A k \in DOMAIN moves :
        LET m == moves[k]
            plain == PathOf(ArchiveDir, m.src.name)
        IN  /\ m.dst \notin m.before
            /\ IF plain \notin m.before THEN m.dst = plain
               ELSE \E c \in 1..(Cardinality(m.before) + 1) :
                       /\ m.dst = WithCounter(plain, c)
                       /\ \A d \in 1..(c - 1) : WithCounter(plain, d) \in m.before
            /\ m.before \cup { m.dst } \subseteq files
            /\ \A j \in DOMAIN moves : j > k => m.dst \in moves[j].before

\* C4 witness: two files of one base name were archived in different runs
\* beside a file that was there before; the second went to the first free
\* suffix, and all three files are there.
C4_Witness ==
    /\ Len(moves) = 2
    /\ moves[1].src.name = moves[2].src.name
    /\ moves[1].run # moves[2].run
    /\ moves[1].dst.name.sfx = <<>>
    /\ moves[2].dst.name.sfx = <<2>>
    /\ Cardinality(ArchiveFiles(files)) = 3

\* C5: in a dry run no file is moved and the archive directory is neither
\* created nor changed, whatever the decisions, and the run still appends one
\* row per action, each marked dry_run.
C5_DryRunOnlyLogs ==
    args.dry_run =>
        /\ files = start.files
        /\ dirs = start.dirs
        /\ moves = <<>>
        /\ \A i \in DOMAIN RunRows : RunRows[i].dry_run
        /\ Archived => Len(RunRows) = Len(actions)

\* C5 witness: a dry run in which a paper was decided "remove" has ended with
\* its rows logged and the paper still in place.
C5_Witness ==
    /\ args.dry_run
    /\ pc = "done"
    /\ Len(RunRows) = 2
    /\ \E i \in DOMAIN actions :
          actions[i].decision = "r" /\ Resolve(actions[i].paper.path) \in files

\* The decision string of the configuration file, and whether it is one of
\* keep, remove, skip in full or as a single letter, in any case.
ConfiguredDefault == Get(config.auto_decision, "default", Str_keep)

ValidDecision(d) ==
    /\ d # None
    /\ Lower(d) \in { <<"k">>, <<"r">>, <<"s">>, Str_keep, Str_remove, Str_skip }

\* Decisions are automatic through the configuration file.
AutomaticByConfig == ~Truthy(args.auto_decision) /\ config.auto_decision.enabled

\* C6: when decisions are automatic and the configured decision string is not
\* one of keep, remove, skip, a run that found papers fails before any side
\* effect: no file moved, no directory created, no row logged, no digest, no
\* collaborator called.
C6_InvalidAutoFailsBeforeSideEffects ==
    (runs > 0 /\ papers # <<>> /\ AutomaticByConfig /\ ~ValidDecision(ConfiguredDefault)) =>
        /\ pc \in { "prepare", "failed", "interrupted" }
        /\ files = start.files
        /\ dirs = start.dirs
        /\ Len(log) = start.logLen
        /\ digests = start.digests
        /\ calls = NoCalls
        /\ mail = NoMail

\* C7: an override fixes every decision; else an enabled automatic mode
\* applies its default to every paper; else the operator is asked.  With an
\* override or an enabled automatic mode the operator is never prompted.
C7_PrecedenceAndNoPrompt ==
    IF Truthy(args.auto_decision)
    THEN /\ ~calls.prompt
         /\ \A i \in DOMAIN actions :
               actions[i].decision = LowerChar(args.auto_decision[1])
    ELSE IF config.auto_decision.enabled
    THEN /\ ~calls.prompt
         /\ ValidDecision(ConfiguredDefault) =>
               \A i \in DOMAIN actions :
                   actions[i].decision = LowerChar(ConfiguredDefault[1])
    ELSE actions # <<>> => calls.prompt

\* The place of a step in a run: the pass it belongs to (triage, then
\* archival), the index of its paper, and its rank within the paper.
PaperIndex(path) == CHOOSE i \in DOMAIN papers : papers[i].path = path

StepKey(e) ==
    << IF e[1] \in { "summary", "decision" } THEN 1 ELSE 2,
       PaperIndex(e[2]),
       IF e[1] \in { "summary", "move" } THEN 1 ELSE 2 >>

Before(step, path, k) == \E j \in 1..(k - 1) : trace[j] = <<step, path>>

\* C8 as claimed: the summary, decision, possible move and log-append of a
\* paper all happen before the summary or decision of the next paper begins.
C8_OnePaperAtATime ==
    \A k \in DOMAIN trace :
        LET q == PaperIndex(trace[k][2])
        IN  (trace[k][1] \in { "summary", "decision" } /\ q > 1) =>
                Before("log", papers[q - 1].path, k)

\* C8 as amended: papers are handled one at a time within each of two passes.
\* The summary and decision of a paper precede the summary and decision of
\* the next; the possible move and the log-append of a paper precede those of
\* the next; the second pass begins when every paper is summarized and decided.
C8_TwoPassesEachInOrder ==
    /\ \A j, k \in DOMAIN trace : j < k => SeqLess(StepKey(trace[j]), StepKey(trace[k]))
    /\ \A k \in DOMAIN trace :
          LET e == trace[k]
              q == PaperIndex(e[2])
          IN  /\ (e[1] = "summary" /\ q > 1) => Before("decision", papers[q - 1].path, k)
              /\ e[1] = "decision" => Before("summary", e[2], k)
              /\ e[1] \in { "move", "log" } =>
                    /\ \A i \in DOMAIN papers : Before("decision", papers[i].path, k)
                    /\ q > 1 => Before("log", papers[q - 1].path, k)
              /\ (e[1] = "log" /\ ShouldMove(actions[q].decision, args.dry_run)) =>
                    Before("move", e[2], k)

\* C8 witness: in a finished run the first paper was moved after the second
\* paper was decided.
C8_Witness ==
    /\ pc = "done"
    /\ Len(papers) >= 2
    /\ \E j, k \in DOMAIN trace :
          /\ j < k
          /\ trace[j] = <<"decision", papers[2].path>>
          /\ trace[k] = <<"move", papers[1].path>>

\* C9: a run with digesting enabled that logged an entry has written a digest
\* file of its own, and no digest file of an earlier run is replaced.
C9_DigestPerRunNeverOverwritten ==
    /\ \A t \in DOMAIN start.digests :
          t \in DOMAIN digests /\ digests[t] = start.digests[t]
    /\ (Archived /\ pc # "digest" /\ config.digest /\ log_entries # <<>>) =>
          /\ digest_path \in DOMAIN digests
          /\ digests[digest_path] = [run |-> runs, entries |-> log_entries]

\* C10: send_message is called only if email is enabled, the run logged an
\* entry, sender and recipients are non-empty and a configured password
\* variable is set; it is called at most once, and its failure does not end
\* the run with an exception: a run whose send_message raised returns, unless
\* it is interrupted before maybe_send_email does.
C10_SendsOnlyWhenConfigured ==
    /\ mail.sends \in { 0, 1 }
    /\ mail.sends = 1 =>
          /\ config.email.enabled
          /\ log_entries # <<>>
          /\ Truthy(config.email.sender)
          /\ config.email.recipients # <<>>
          /\ Truthy(config.email.password_env) => environ # None
    /\ ~mail.escaped
    /\ mail.raised => pc \in { "done", "interrupted" }

\* C10 witness: with a password variable configured and set, send_message was
\* called, it raised, and the run returned normally.
C10_Witness ==
    /\ mail.sends = 1
    /\ mail.raised
    /\ pc = "done"
    /\ Truthy(config.email.password_env)

\* C11: once an entry has been appended, the log file holds exactly one header
\* row, the six column names, as its first row, followed by one row per
\* appended entry in the order of the appends, whatever the runs that came
\* before.
C11_OneHeaderThenRows ==
    log # <<>> =>
        /\ Len(csv) = Len(log) + 1
        /\ csv[1].kind = "header" /\ csv[1].cells = LOG_FIELDS
        /\ \A i \in DOMAIN log :
              csv[i + 1].kind = "row" /\ csv[i + 1].cells = log[i]

\* A source contributes: its file is there, its type is known and its parser
\* did not raise.
Contributes(source) ==
    LET source_type == Lower(Or(Get(source, "type", None), T_bookmarks)) IN
    /\ source.path \in DOMAIN MetaDisk
    /\ \/ source_type = T_bookmarks
          /\ ~_parse_bookmarks_json(source.path, MetaDisk[source.path]).raised
       \/ source_type \in { T_zotero, T_mendeley }
          /\ ~_parse_reference_export(source.path, MetaDisk[source.path]).raised

\* The records each configured source contributes, the places (source,
\* record) among them, and the last place that defines a key, in processing
\* order.
ConfiguredRecords ==
    [ i \in DOMAIN config.metadata_sources |->
        SourceRecords(config.metadata_sources[i], MetaDisk) ]

Places(recs) == { p \in (DOMAIN recs) \X (1..3) : p[2] \in DOMAIN recs[p[1]] }

Defining(recs, k) == { p \in Places(recs) : recs[p[1]][p[2]].file_key = k }

LastPlace(recs, k) ==
    CHOOSE d \in Defining(recs, k) : \A e \in Defining(recs, k) : SeqLess(e, d) \/ e = d

\* C12: the lookup of a run holds, for every file_key some source defines,
\* exactly the last record that defines it in processing order (the last
\* source, and the last record within it), with no field of an earlier
\* record, and it holds no other key; every record in it comes from a source
\* whose file is there, whose type is known and whose parser did not raise.
C12_LastRecordWins ==
    runs > 0 =>
        LET src == config.metadata_sources
            recs == ConfiguredRecords
            keys == { recs[p[1]][p[2]].file_key : p \in Places(recs) }
        IN  /\ DOMAIN metadata_lookup = keys
            /\ \A k \in keys :
                  LET d == LastPlace(recs, k)
                  IN  /\ metadata_lookup[k] = recs[d[1]][d[2]]
                      /\ DOMAIN metadata_lookup[k] = DOMAIN recs[d[1]][d[2]]
                      /\ Contributes(src[d[1]])
                      /\ src[d[1]].path = metadata_lookup[k].source
            /\ \A i \in DOMAIN src : ~Contributes(src[i]) => recs[i] = <<>>

\* C12 witness: of three sources the first defines x.pdf with authors, the
\* second contributes nothing and the third defines x.pdf twice; the lookup
\* holds the last record of the third, without authors.
C12_Witness ==
    LET src == config.metadata_sources
        recs == ConfiguredRecords
    IN  /\ runs > 0
        /\ Len(src) = 3
        /\ \E j \in DOMAIN recs[1] :
              recs[1][j].file_key = N_x /\ "authors" \in DOMAIN recs[1][j]
        /\ ~Contributes(src[2])
        /\ Cardinality(Defining(recs, N_x)) = 3
        /\ N_x \in DOMAIN metadata_lookup
        /\ metadata_lookup[N_x].source = "bm2.json"
        /\ metadata_lookup[N_x].title = Title3
        /\ "authors" \notin DOMAIN metadata_lookup[N_x]

\* The moves of this run whose log-append has not followed: the places in
\* the trace of a move with no later log step of the same paper.
MovedUnlogged ==
    { k \in DOMAIN trace :
        /\ trace[k][1] = "move"
        /\ ~\E j \in (k + 1)..Len(trace) : trace[j] = << "log", trace[k][2] >> }

\* The log steps of the trace, in order.
LogSteps == SelectSeq(trace, LAMBDA e : e[1] = "log")

\* C13: wherever a non-dry run stops, at most one file it moved to the
\* archive has no log row, and that is the file whose move was the last
\* completed step; every other move is followed at once by the log-append of
\* the same paper, before any step of the next action, and the row is in the
\* log file.
C13_AtMostLastMoveUnlogged ==
    (runs > 0 /\ ~args.dry_run) =>
        /\ Cardinality(MovedUnlogged) <= 1
        /\ \A k \in MovedUnlogged : k = Len(trace)
        /\ \A k \in DOMAIN trace :
              (trace[k][1] = "move" /\ k < Len(trace)) =>
                  trace[k + 1] = << "log", trace[k][2] >>
        /\ Cardinality({ k \in DOMAIN moves : moves[k].run = runs })
              = Cardinality({ k \in DOMAIN trace : trace[k][1] = "move" })
        /\ Len(LogSteps) = Len(RunRows)
        /\ \A n \in DOMAIN LogSteps :
              /\ RunRows[n].path = LogSteps[n][2]
              /\ \E i \in DOMAIN csv : csv[i].kind = "row" /\ csv[i].cells = RunRows[n]

\* C13 witness: a run was interrupted after it had moved and logged one
\* paper and moved a second; the second is in the archive and has no row.
C13_Witness ==
    /\ pc = "interrupted"
    /\ ~args.dry_run
    /\ Len(trace) >= 2
    /\ trace[Len(trace)][1] = "move"
    /\ trace[Len(trace) - 1][1] = "log"
    /\ \E k \in DOMAIN trace : k < Len(trace) - 1 /\ trace[k][1] = "move"
    /\ Cardinality(MovedUnlogged) = 1
    /\ Resolve(trace[Len(trace)][2]) \notin files
    /\ moves[Len(moves)].dst \in files
    /\ \A n \in DOMAIN RunRows : RunRows[n].path # trace[Len(trace)][2]

====
